---- MODULE Spec2Model ----
(***************************************************************************)
(* Model of the billing extraction pipeline (monitor_faturamento.py and    *)
(* src/infrastructure/repositories.py, omie_client.py).                    *)
(*                                                                         *)
(*  Spec        the orchestrator: BillingApplication.__init__ and          *)
(*              run_extraction, one process run.                           *)
(*  SpecRuns    two consecutive process runs that share the files on disk  *)
(*              (processados.json, the snapshot).                          *)
(*  SpecClean   one run over a period whose orders all clean and have      *)
(*              distinct ids and display numbers.                          *)
(*  SpecIndex   the invoice loop of _fetch_nfe_map over a page of invoices *)
(*              of any linkage.                                            *)
(*  SpecValidate  one call of BillingDomainService.validar_integridade.    *)
(*  SpecLoad    the reference maps loaded by BillingApplication.__init__.  *)
(*  SpecMoney   the monetary conversion of entities._to_decimal and of     *)
(*              clean_order_data.                                          *)
(*  SpecAtomic  JsonRepository._atomic_write, statement by statement, with *)
(*              a crash or an exception possible at every step.            *)
(*  SpecRepo    JsonRepository.load_filter_set / update_processed_list     *)
(*              called in any order on a processados.json of any shape.    *)
(***************************************************************************)
EXTENDS Integers, Sequences, FiniteSets, TLC

VARIABLES
    run,                    \* 1 = first process run, 2 = second run
    pc,                     \* control point of the running process
    variant,                \* which ERP data set the period holds
    procFile,               \* processados.json on disk
    snapshot,               \* faturamento_<date>.json on disk
    cache,                  \* JsonRepository._cache["processados.json"]
    filtro_bloqueio,        \* BillingApplication.filtro_bloqueio
    nf_page, nf_total, nf_map,
    page, total_pages, retries, skipped_count,
    orders, idx,            \* orders of the page in hand, position in them
    all_cleaned_orders, ids_processados_agora,
    hist,                   \* history of the current run
    prev,                   \* history of the first run, once it has ended
    aw,                     \* state of one _atomic_write call (SpecAtomic)
    call                    \* one call of a domain or repository function

vars == <<run, pc, variant, procFile, snapshot, cache, filtro_bloqueio,
          nf_page, nf_total, nf_map, page, total_pages, retries,
          skipped_count, orders, idx, all_cleaned_orders,
          ids_processados_agora, hist, prev, aw, call>>

(***************************************************************************)
(* Bounds and program constants                                            *)
(***************************************************************************)
ErpTotalPages == 5          \* order pages the ERP reports for the period
NfTotalPages == 2           \* invoice pages the ERP reports for the period
MaxNewIds == 2              \* ids in one update_processed_list call (SpecRepo)
MaxChunks == 2              \* chunks json.dump writes for one file (SpecAtomic)
MaxNfs == 2                 \* invoices of one invoice page (SpecIndex)
MaxNfItems == 2             \* line items of one invoice (SpecValidate)
MaxRefs == 2                \* objects of one reference file (SpecLoad)
MaxMilli == 25              \* thousandths around 0 and around 10 (SpecMoney)
MAX_RETRIES == 3
CheckpointEvery == 5

(***************************************************************************)
(* Dictionaries (all_cleaned_orders, the snapshot) as functions            *)
(***************************************************************************)
EmptyMap == [k \in {} |-> ""]

PutIfAbsent(m, k, v) ==
    [x \in (DOMAIN m) \cup {k} |-> IF x \in DOMAIN m THEN m[x] ELSE v]

Put(m, k, v) == [x \in (DOMAIN m) \cup {k} |-> IF x = k THEN v ELSE m[x]]

Values(m) == {m[k] : k \in DOMAIN m}

SeqSet(s) == {s[i] : i \in 1..Len(s)}

(***************************************************************************)
(* ERP data of the period.  An order is its internal id (codigo_pedido),   *)
(* its display number (numero_pedido) and the shape of its payload:        *)
(*   good    cleans without error                                          *)
(*   dirty   clean_order_data raises (e.g. a non-numeric quantity)         *)
(*   badcab  "cabecalho" is a list, so cab.get raises outside the          *)
(*           per-order try                                                 *)
(* The period holds one of three data sets (variant): "plain", where two   *)
(* orders share a display number and one does not clean; "quirky", which   *)
(* adds an order with a list-shaped header; "distinct", where every order  *)
(* cleans and the display numbers are pairwise distinct.                   *)
(***************************************************************************)
Order(i, n, k) == [id |-> i, num |-> n, kind |-> k]

ErpPage(p) ==
    CASE p = 1 -> << Order("m", "n0", "good"), Order("a", "n1", "good") >>
      [] p = 2 -> << Order("b", "n2", "good") >>
      [] p = 3 -> IF variant = "distinct"
                  THEN << Order("d", "n3", "good"), Order("c", "n9", "good") >>
                  ELSE << Order("d", "n3", "dirty"), Order("c", "n1", "good") >>
      [] p = 4 -> IF variant = "quirky"
                  THEN << Order("k", "n8", "good"), Order("e", "n4", "good"),
                          Order("x", "n5", "badcab") >>
                  ELSE << Order("k", "n8", "good"), Order("e", "n4", "good") >>
      [] p = 5 -> << Order("f", "n6", "good") >>
      [] OTHER -> << Order("g", "n7", "good") >>

Manifestados == {"m", "k"}

(* The orders of the period, and the display number of an internal id. *)
ErpOrders == UNION {SeqSet(ErpPage(p)) : p \in 1..ErpTotalPages}

NumOf(i) == (CHOOSE o \in ErpOrders : o.id = i).num

(* An invoice: its number (nNF), the order id of its "compl" block and the *)
(* order id of its first line item ("0" when there is none).               *)
Nf(n, c, d) == [nNF |-> n, compl |-> c, det |-> d]

ErpNfPage(p) ==
    CASE p = 1 -> << Nf("i1", "a", "0"), Nf("i2", "0", "b") >>
      [] p = 2 -> << Nf("i3", "0", "0"), Nf("i4", "c", "c") >>
      [] OTHER -> << Nf("i5", "f", "0") >>

(***************************************************************************)
(* Files                                                                   *)
(***************************************************************************)
AbsentFile == [kind |-> "absent", ids |-> {}]
ListFile(s) == [kind |-> "list", ids |-> s]
OtherFile == [kind |-> "other", ids |-> {}]      \* valid JSON, not a list

NoCache == [has |-> FALSE, ids |-> {}]
Cached(s) == [has |-> TRUE, ids |-> s]

NoSnapshot == [exists |-> FALSE, data |-> EmptyMap]
Snapshot(m) == [exists |-> TRUE, data |-> m]

(* The ids a processados.json holds. *)
StoredIds(f) == IF f.kind = "list" THEN f.ids ELSE {}

(***************************************************************************)
(* JsonRepository                                                          *)
(***************************************************************************)
(* load_filter_set: the cached value when there is one; else the file,     *)
(* when it exists, can be read and holds a list (then cached); else the    *)
(* empty set.  readOk = FALSE is an open/json.load that raises.            *)
load_filter_set(f, c, readOk) ==
    IF c.has THEN [result |-> c.ids, cache |-> c]
    ELSE IF f.kind = "absent" THEN [result |-> {}, cache |-> c]
    ELSE IF ~readOk THEN [result |-> {}, cache |-> c]
    ELSE IF f.kind # "list" THEN [result |-> {}, cache |-> c]
    ELSE [result |-> f.ids, cache |-> Cached(f.ids)]

update_processed_list_keeps_old(f, c, new_ids, readOk, writeOk) ==
    IF new_ids = << >> THEN [file |-> f, cache |-> c]
    ELSE LET current_ids == load_filter_set(f, c, readOk).result
         IN  [file  |-> IF writeOk THEN ListFile(current_ids) ELSE f,
              cache |-> Cached(current_ids)]

(* update_processed_list: union of the loaded set and the new ids, cached  *)
(* at once, then written; a failed write is logged and swallowed.          *)
update_processed_list(f, c, new_ids, readOk, writeOk) ==
    IF new_ids = << >> THEN [file |-> f, cache |-> c]
    ELSE LET current_ids == load_filter_set(f, c, readOk).result
             updated_ids == current_ids \cup SeqSet(new_ids)
         IN  [file  |-> IF writeOk THEN ListFile(updated_ids) ELSE f,
              cache |-> Cached(updated_ids)]

(***************************************************************************)
(* Invoice indexer (_fetch_nfe_map)                                        *)
(***************************************************************************)
ResolveLinkNoFallback(nf) == nf.compl

(* lines 81-88: the order id of "compl", or of the first line item when    *)
(* that one is "0" or empty.                                               *)
ResolveLink(nf) ==
    IF nf.compl = "0" \/ nf.compl = "" THEN nf.det ELSE nf.compl

RECURSIVE IndexNfs(_, _)
IndexNfs(m, nfs) ==
    IF nfs = << >> THEN m
    ELSE LET n_id_pedido == ResolveLink(Head(nfs))
         IN  IndexNfs(IF n_id_pedido # "" /\ n_id_pedido # "0"
                      THEN Put(m, n_id_pedido, Head(nfs).nNF)
                      ELSE m,
                      Tail(nfs))

(***************************************************************************)
(* Domain service (BillingDomainService) and the payloads it reads         *)
(*                                                                         *)
(* A line item is its product code, its quantity in 1/10000 and its unit   *)
(* price in 1/1000 of the currency unit, so that the tolerances of the     *)
(* validator (0.001 and 0.01) are whole numbers.                           *)
(***************************************************************************)
Item(c, q, v) == [cod |-> c, q |-> q, v |-> v]

(* "det" of the order with internal id i *)
OrderItems(i) ==
    CASE i = "a" -> << Item("A1", 20000, 5000) >>
      [] i = "b" -> << Item("B1", 10000, 9990) >>
      [] i = "c" -> << Item("A1", 20000, 5000), Item("C1", 30000, 1500) >>
      [] OTHER   -> << Item("Z9", 10000, 1000) >>

(* "det" of the invoice with number n *)
NfItems(n) ==
    CASE n = "i1" -> << Item("A1", 20005, 5000) >>
      [] n = "i2" -> << Item("B1", 10000, 9990) >>
      [] n = "i4" -> << Item("C1", 30000, 1500), Item("A1", 25000, 5000) >>
      [] OTHER    -> << >>

(* infoCadastro.faturado = "S" *)
Faturado(i) == i \in {"a", "b", "c", "e"}

(* The raw invoice with number n. *)
RawNf(n) ==
    CHOOSE nf \in UNION {SeqSet(ErpNfPage(p)) : p \in 1..(NfTotalPages + 1)} :
        nf.nNF = n

QtyTolerance == 10
PriceTolerance == 10

Abs(x) == IF x < 0 THEN -x ELSE x

(* line 109: the match of an invoice item with an order item *)
ItemMatches(nf_item, ped_item) ==
    /\ nf_item.cod = ped_item.cod
    /\ Abs(nf_item.q - ped_item.q) < QtyTolerance
    /\ Abs(nf_item.v - ped_item.v) < PriceTolerance

NoHash == << >>

(* gerar_hash_item: a digest of the linked order id of the invoice and of  *)
(* the invoice item; modelled as the tuple that is digested.               *)
gerar_hash_item(nf, nf_item) == <<"sha256", nf.compl, nf_item.cod, nf_item.q>>

(* The payloads the validator reads: the invoice and the order with their  *)
(* "det" lists.                                                            *)
NfPayload(nf) ==
    [nNF |-> nf.nNF, compl |-> nf.compl, det |-> nf.det,
     items |-> NfItems(nf.nNF)]

OrderPayload(o) == [id |-> o.id, items |-> OrderItems(o.id)]

(* lines 98-115: whether some order item matches the invoice item *)
Found(nf_item, ped_items) ==
    \E j \in 1..Len(ped_items) : ItemMatches(nf_item, ped_items[j])

(* lines 117-118: one message for each invoice item that found no match,   *)
(* in the order of the invoice items.                                      *)
RECURSIVE ItemErrors(_, _)
ItemErrors(nf_items, ped_items) ==
    IF nf_items = << >> THEN << >>
    ELSE (IF Found(Head(nf_items), ped_items) THEN << >>
          ELSE << <<"item", Head(nf_items).cod>> >>)
         \o ItemErrors(Tail(nf_items), ped_items)

validar_integridade_hash_always(raw_nf, raw_order) ==
    LET nf_items  == raw_nf.items
        ped_items == raw_order.items
        head_err  == IF raw_nf.compl # raw_order.id
                     THEN << <<"id", raw_nf.compl, raw_order.id>> >>
                     ELSE << >>
        found     == {i \in 1..Len(nf_items) : Found(nf_items[i], ped_items)}
        erros     == head_err \o ItemErrors(nf_items, ped_items)
        last      == CHOOSE i \in found : \A k \in found : k <= i
    IN  IF nf_items = << >>
        THEN [status |-> "FALHA", hash_validacao |-> NoHash,
              erros |-> Append(head_err, <<"noitems">>)]
        ELSE [status |-> IF Cardinality(found) = Len(nf_items) /\ erros = << >>
                         THEN "OK" ELSE "FALHA",
              erros |-> erros,
              hash_validacao |->
                  IF found = {} THEN NoHash
                  ELSE gerar_hash_item(raw_nf, nf_items[last])]

validar_integridade_first_error(raw_nf, raw_order) ==
    LET nf_items  == raw_nf.items
        ped_items == raw_order.items
        head_err  == IF raw_nf.compl # raw_order.id
                     THEN << <<"id", raw_nf.compl, raw_order.id>> >>
                     ELSE << >>
        found     == {i \in 1..Len(nf_items) : Found(nf_items[i], ped_items)}
        all_errs  == head_err \o ItemErrors(nf_items, ped_items)
        erros     == IF all_errs = << >> THEN << >> ELSE << Head(all_errs) >>
        last      == CHOOSE i \in found : \A k \in found : k <= i
    IN  IF nf_items = << >>
        THEN [status |-> "FALHA", hash_validacao |-> NoHash,
              erros |-> Append(head_err, <<"noitems">>)]
        ELSE IF Cardinality(found) = Len(nf_items) /\ erros = << >>
        THEN [status |-> "OK", erros |-> erros,
              hash_validacao |-> gerar_hash_item(raw_nf, nf_items[last])]
        ELSE [status |-> "FALHA", hash_validacao |-> NoHash, erros |-> erros]

validar_integridade_linked_id(raw_nf, raw_order) ==
    LET nf_items  == raw_nf.items
        ped_items == raw_order.items
        head_err  == IF ResolveLink(raw_nf) # raw_order.id
                     THEN << <<"id", raw_nf.compl, raw_order.id>> >>
                     ELSE << >>
        found     == {i \in 1..Len(nf_items) : Found(nf_items[i], ped_items)}
        erros     == head_err \o ItemErrors(nf_items, ped_items)
        last      == CHOOSE i \in found : \A k \in found : k <= i
    IN  IF nf_items = << >>
        THEN [status |-> "FALHA", hash_validacao |-> NoHash,
              erros |-> Append(head_err, <<"noitems">>)]
        ELSE IF Cardinality(found) = Len(nf_items) /\ erros = << >>
        THEN [status |-> "OK", erros |-> erros,
              hash_validacao |-> gerar_hash_item(raw_nf, nf_items[last])]
        ELSE [status |-> "FALHA", hash_validacao |-> NoHash, erros |-> erros]

validar_integridade_no_early_return(raw_nf, raw_order) ==
    LET nf_items  == raw_nf.items
        ped_items == raw_order.items
        head_err  == IF raw_nf.compl # raw_order.id
                     THEN << <<"id", raw_nf.compl, raw_order.id>> >>
                     ELSE << >>
        found     == {i \in 1..Len(nf_items) : Found(nf_items[i], ped_items)}
        erros     == head_err \o ItemErrors(nf_items, ped_items)
        last      == CHOOSE i \in found : \A k \in found : k <= i
    IN  IF Cardinality(found) = Len(nf_items) /\ erros = << >>
        THEN [status |-> "OK", erros |-> erros,
              hash_validacao |-> IF found = {} THEN NoHash
                                 ELSE gerar_hash_item(raw_nf, nf_items[last])]
        ELSE [status |-> "FALHA", hash_validacao |-> NoHash, erros |-> erros]

validar_integridade_consuming(raw_nf, raw_order) ==
    LET nf_items  == raw_nf.items
        ped_items == raw_order.items
        n         == Len(nf_items)
        head_err  == IF raw_nf.compl # raw_order.id
                     THEN << <<"id", raw_nf.compl, raw_order.id>> >>
                     ELSE << >>
        hits(k, r) == {j \in 1..Len(r) : ItemMatches(nf_items[k], r[j])}
        left[k \in 0..n] ==
            IF k = 0 THEN ped_items
            ELSE LET r == left[k - 1]
                 IN  IF hits(k, r) = {} THEN r
                     ELSE LET j == CHOOSE x \in hits(k, r) :
                                       \A y \in hits(k, r) : x <= y
                          IN  SubSeq(r, 1, j - 1) \o SubSeq(r, j + 1, Len(r))
        found     == {k \in 1..n : hits(k, left[k - 1]) # {}}
        errs[k \in 0..n] ==
            IF k = 0 THEN << >>
            ELSE errs[k - 1] \o (IF k \in found THEN << >>
                                 ELSE << <<"item", nf_items[k].cod>> >>)
        erros     == head_err \o errs[n]
        last      == CHOOSE i \in found : \A k \in found : k <= i
    IN  IF nf_items = << >>
        THEN [status |-> "FALHA", hash_validacao |-> NoHash,
              erros |-> Append(head_err, <<"noitems">>)]
        ELSE IF Cardinality(found) = Len(nf_items) /\ erros = << >>
        THEN [status |-> "OK", erros |-> erros,
              hash_validacao |-> gerar_hash_item(raw_nf, nf_items[last])]
        ELSE [status |-> "FALHA", hash_validacao |-> NoHash, erros |-> erros]

validar_integridade_hash_first(raw_nf, raw_order) ==
    LET nf_items  == raw_nf.items
        ped_items == raw_order.items
        head_err  == IF raw_nf.compl # raw_order.id
                     THEN << <<"id", raw_nf.compl, raw_order.id>> >>
                     ELSE << >>
        found     == {i \in 1..Len(nf_items) : Found(nf_items[i], ped_items)}
        erros     == head_err \o ItemErrors(nf_items, ped_items)
        first     == CHOOSE i \in found : \A k \in found : i <= k
    IN  IF nf_items = << >>
        THEN [status |-> "FALHA", hash_validacao |-> NoHash,
              erros |-> Append(head_err, <<"noitems">>)]
        ELSE IF Cardinality(found) = Len(nf_items) /\ erros = << >>
        THEN [status |-> "OK", erros |-> erros,
              hash_validacao |-> gerar_hash_item(raw_nf, nf_items[first])]
        ELSE [status |-> "FALHA", hash_validacao |-> NoHash, erros |-> erros]

(* validar_integridade(raw_nf, raw_order): the verdict, the error          *)
(* messages in order, and the hash of the last matched invoice item.       *)
validar_integridade(raw_nf, raw_order) ==
    LET nf_items  == raw_nf.items
        ped_items == raw_order.items
        head_err  == IF raw_nf.compl # raw_order.id
                     THEN << <<"id", raw_nf.compl, raw_order.id>> >>
                     ELSE << >>
        found     == {i \in 1..Len(nf_items) : Found(nf_items[i], ped_items)}
        erros     == head_err \o ItemErrors(nf_items, ped_items)
        last      == CHOOSE i \in found : \A k \in found : k <= i
    IN  IF nf_items = << >>
        THEN [status |-> "FALHA", hash_validacao |-> NoHash,
              erros |-> Append(head_err, <<"noitems">>)]
        ELSE IF Cardinality(found) = Len(nf_items) /\ erros = << >>
        THEN [status |-> "OK", erros |-> erros,
              hash_validacao |-> gerar_hash_item(raw_nf, nf_items[last])]
        ELSE [status |-> "FALHA", hash_validacao |-> NoHash, erros |-> erros]

NoNf == ""

(* nf_reference_map.get(cod_pedido) *)
LookupNf(nfm, i) == IF i \in DOMAIN nfm THEN nfm[i] ELSE NoNf

(* clean_order_data(raw_order, nf_data, validation_hash): the fields of    *)
(* the PedidoRefinado dictionary that the properties read.                 *)
clean_order_data(raw_order, nf_data, validation_hash) ==
    [codigo_pedido    |-> raw_order.id,
     numero_pedido    |-> raw_order.num,
     faturado         |-> Faturado(raw_order.id),
     nota_fiscal      |-> nf_data,
     hash_integridade |-> validation_hash]

(* lines 154-157: what run_extraction stores for an order: the order       *)
(* cleaned with the invoice summary of the index, no validation hash.      *)
DadosLimpos(order, nfm) ==
    clean_order_data(order, LookupNf(nfm, order.id), NoHash)

(***************************************************************************)
(* History kept beside the program state                                   *)
(***************************************************************************)
Args(o, i) == [orders |-> o, ids |-> i]

NoArgs == Args(EmptyMap, << >>)

InitHist ==
    [loadOk      |-> FALSE,    \* __init__ loaded the ids processados.json holds
     ckpt        |-> FALSE,    \* a checkpoint wrote the snapshot
     finalCalls  |-> 0,        \* calls of _save_results from the finally block
     finalArgs   |-> NoArgs,   \* what the finally block passed
     finalWrites |-> 0,        \* calls of save_refined_json by that save
     intr        |-> "none",   \* where a KeyboardInterrupt arrived
     atIntr      |-> NoArgs,   \* what had been accumulated at that moment
     finalSnapOk |-> FALSE,    \* the final save wrote the snapshot
     finalIdsOk  |-> FALSE,    \* the final save wrote processados.json
     missed      |-> FALSE,    \* an order page was given up, or the ERP
                               \* answered "no records"
     wait        |-> 0,        \* seconds the retry handler slept in the
                               \* step just taken (0: it did not sleep)
     base        |-> {}]       \* the ids processados.json held at the start

(* What is remembered of the first run once the second one starts. *)
NoPrev ==
    [end     |-> "none",   \* how the first run ended: done, escaped, killed
     aborted |-> FALSE,    \* it was interrupted or killed
     ckpt    |-> FALSE,    \* it wrote a checkpoint
     finalOk |-> FALSE,    \* its final save wrote both files
     allOk   |-> FALSE,    \* it processed every order page of the period
     ids     |-> {},       \* the ids it had captured when it ended
     base    |-> {}]       \* the ids processados.json held before it

AwIdle == [pc |-> "idle"]

NoCall == [op |-> "none"]

Running == {"indexing", "fetch", "process", "ckpt_snap", "ckpt_ids",
            "final", "fin_snap", "fin_ids"}

Ended == {"done", "escaped", "killed"}

InLoop == {"fetch", "process", "ckpt_snap", "ckpt_ids"}

(***************************************************************************)
(* BillingApplication.__init__                                             *)
(***************************************************************************)
Construct(readOk) ==
    /\ pc = "start"
    /\ LET processados_antigos == load_filter_set(procFile, cache, readOk)
       IN  /\ filtro_bloqueio' = Manifestados \cup processados_antigos.result
           /\ cache' = processados_antigos.cache
           /\ hist' = [hist EXCEPT
                  !.loadOk = (processados_antigos.result = StoredIds(procFile))]
    /\ pc' = "indexing"
    /\ nf_page' = 1 /\ nf_total' = 1 /\ nf_map' = EmptyMap
    /\ UNCHANGED <<run, variant, procFile, snapshot, page, total_pages,
                   retries, skipped_count, orders, idx, all_cleaned_orders,
                   ids_processados_agora, prev, aw, call>>

(***************************************************************************)
(* run_extraction, part 1: _fetch_nfe_map                                  *)
(***************************************************************************)
(* _fetch_nfe_map returns nf_map; its page counters are gone. *)
EnterOrderLoop ==
    /\ pc' = "fetch"
    /\ nf_page' = 1 /\ nf_total' = 1
    /\ page' = 1 /\ total_pages' = 1 /\ skipped_count' = 0 /\ retries' = 0
    /\ all_cleaned_orders' = EmptyMap
    /\ ids_processados_agora' = << >>

IndexPage(outcome) ==
    /\ pc = "indexing"
    /\ nf_page <= nf_total
    /\ \/ /\ outcome = "ok"
          /\ nf_total' = NfTotalPages
          /\ nf_map' = IndexNfs(nf_map, ErpNfPage(nf_page))
          /\ nf_page' = nf_page + 1
          /\ UNCHANGED <<pc, page, total_pages, skipped_count, retries,
                         all_cleaned_orders, ids_processados_agora>>
       \/ /\ outcome = "norecords"      \* total 0, no invoices: break
          /\ UNCHANGED nf_map
          /\ EnterOrderLoop
       \/ /\ outcome = "fail"           \* logged, page skipped
          /\ nf_page' = nf_page + 1
          /\ UNCHANGED <<nf_total, nf_map, pc, page, total_pages,
                         skipped_count, retries, all_cleaned_orders,
                         ids_processados_agora>>
    /\ UNCHANGED <<run, variant, procFile, snapshot, cache, filtro_bloqueio,
                   orders, idx, hist, prev, aw, call>>

IndexDone ==
    /\ pc = "indexing"
    /\ nf_page > nf_total
    /\ EnterOrderLoop
    /\ UNCHANGED <<run, variant, procFile, snapshot, cache, filtro_bloqueio,
                   nf_map, orders, idx, hist, prev, aw, call>>

(* KeyboardInterrupt is no Exception: neither handler of _fetch_nfe_map    *)
(* catches it, and the call is outside run_extraction's try.               *)
InterruptIndexing ==
    /\ pc = "indexing"
    /\ pc' = "escaped"
    /\ hist' = [hist EXCEPT !.intr = "indexing"]
    /\ UNCHANGED <<run, variant, procFile, snapshot, cache, filtro_bloqueio,
                   nf_page, nf_total, nf_map, page, total_pages, retries,
                   skipped_count, orders, idx, all_cleaned_orders,
                   ids_processados_agora, prev, aw, call>>

(***************************************************************************)
(* OmieClient.request, as listar_pedidos sees it                           *)
(*   ok         the page                                                   *)
(*   norecords  faultstring "nao existem registros": an empty page, total 0*)
(*   logical    any other faultstring: raise Exception                     *)
(*   transport  timeout, connection error, HTTP error: raise               *)
(***************************************************************************)
FetchOutcomes == {"ok", "norecords", "logical", "transport"}

ClientRaises(outcome) == outcome \in {"logical", "transport"}

ResponseKeepsTotal(outcome, p) ==
    [total_de_paginas |-> ErpTotalPages,
     pedidos |-> IF outcome = "norecords" THEN << >> ELSE ErpPage(p)]

Response(outcome, p) ==
    IF outcome = "norecords"
    THEN [total_de_paginas |-> 0, pedidos |-> << >>]
    ELSE [total_de_paginas |-> ErpTotalPages, pedidos |-> ErpPage(p)]

(***************************************************************************)
(* run_extraction, part 2: the order loop                                  *)
(***************************************************************************)
BackoffWaitConstant(k) == 2

(* line 180: wait_time = 2 ** retries *)
BackoffWait(k) == 2 ^ k

(* lines 179-186: the sleep of the handler, after retries += 1; none when   *)
(* the page is given up.                                                   *)
Slept == IF retries + 1 >= MAX_RETRIES THEN 0 ELSE BackoffWait(retries + 1)

PageFailureStartsOver ==
    /\ page' = page
    /\ retries' = IF retries + 1 >= MAX_RETRIES THEN 0 ELSE retries + 1
    /\ pc' = "fetch"
    /\ orders' = << >> /\ idx' = 1

(* except Exception of the retry loop (lines 178-186). *)
PageFailure ==
    /\ IF retries + 1 >= MAX_RETRIES
       THEN page' = page + 1 /\ retries' = 0
       ELSE page' = page /\ retries' = retries + 1
    /\ pc' = "fetch"
    /\ orders' = << >> /\ idx' = 1

NextPageSkipsOne ==
    /\ page' = page + 2
    /\ retries' = 0
    /\ pc' = "fetch"

(* page += 1 after a page processed to its end (lines 173-176). *)
NextPage ==
    /\ page' = page + 1
    /\ retries' = 0
    /\ pc' = "fetch"

ListarPedidos(outcome) ==
    /\ pc = "fetch"
    /\ page <= total_pages
    /\ hist' = [hist EXCEPT
                  !.missed = @ \/ outcome = "norecords"
                     \/ (ClientRaises(outcome) /\ retries + 1 >= MAX_RETRIES),
                  !.wait = IF ClientRaises(outcome) THEN Slept ELSE 0]
    /\ IF ClientRaises(outcome)
       THEN PageFailure /\ UNCHANGED total_pages
       ELSE /\ total_pages' = Response(outcome, page).total_de_paginas
            /\ orders' = Response(outcome, page).pedidos
            /\ idx' = 1
            /\ pc' = "process"
            /\ UNCHANGED <<page, retries>>
    /\ UNCHANGED <<run, variant, procFile, snapshot, cache, filtro_bloqueio,
                   nf_page, nf_total, nf_map, skipped_count,
                   all_cleaned_orders, ids_processados_agora, prev, aw>>

FetchPage(outcome) == ListarPedidos(outcome) /\ UNCHANGED call

BlockedByNumber(o) == o.num \in filtro_bloqueio

(* line 147: the blocklist test, on the internal id *)
Blocked(o) == o.id \in filtro_bloqueio

ProcessOrderMarksDirty ==
    /\ pc = "process"
    /\ idx <= Len(orders)
    /\ LET order == orders[idx]
       IN  IF order.kind = "badcab"
           THEN /\ PageFailure
                /\ hist' = [hist EXCEPT
                              !.missed = @ \/ retries + 1 >= MAX_RETRIES,
                              !.wait = Slept]
                /\ UNCHANGED <<skipped_count, all_cleaned_orders,
                               ids_processados_agora>>
           ELSE /\ idx' = idx + 1
                /\ UNCHANGED <<pc, page, retries, orders, hist>>
                /\ IF Blocked(order)
                   THEN /\ skipped_count' = skipped_count + 1
                        /\ UNCHANGED <<all_cleaned_orders,
                                       ids_processados_agora>>
                   ELSE IF order.kind = "dirty"
                   THEN /\ ids_processados_agora' =
                               Append(ids_processados_agora, order.id)
                        /\ UNCHANGED <<skipped_count, all_cleaned_orders>>
                   ELSE /\ all_cleaned_orders' =
                               Put(all_cleaned_orders, order.num, order.id)
                        /\ ids_processados_agora' =
                               Append(ids_processados_agora, order.id)
                        /\ UNCHANGED skipped_count
    /\ UNCHANGED <<run, variant, procFile, snapshot, cache, filtro_bloqueio,
                   nf_page, nf_total, nf_map, total_pages, prev, aw, call>>

ProcessOrder ==
    /\ pc = "process"
    /\ idx <= Len(orders)
    /\ LET order == orders[idx]
       IN  IF order.kind = "badcab"
           THEN /\ PageFailure
                /\ hist' = [hist EXCEPT
                              !.missed = @ \/ retries + 1 >= MAX_RETRIES,
                              !.wait = Slept]
                /\ UNCHANGED <<skipped_count, all_cleaned_orders,
                               ids_processados_agora>>
           ELSE /\ idx' = idx + 1
                /\ UNCHANGED <<pc, page, retries, orders, hist>>
                /\ IF Blocked(order)
                   THEN /\ skipped_count' = skipped_count + 1
                        /\ UNCHANGED <<all_cleaned_orders,
                                       ids_processados_agora>>
                   ELSE IF order.kind = "dirty"
                   THEN UNCHANGED <<skipped_count, all_cleaned_orders,
                                    ids_processados_agora>>
                   ELSE /\ all_cleaned_orders' =
                               Put(all_cleaned_orders, order.num, order.id)
                        /\ ids_processados_agora' =
                               Append(ids_processados_agora, order.id)
                        /\ UNCHANGED skipped_count
    /\ UNCHANGED <<run, variant, procFile, snapshot, cache, filtro_bloqueio,
                   nf_page, nf_total, nf_map, total_pages, prev, aw, call>>

IsCheckpointPage(p) == p % CheckpointEvery = 0

(* End of the page: the checkpoint when page % 5 = 0, then page += 1.      *)
(* _save_results returns at once when the output map is empty.             *)
PageEnd ==
    /\ pc = "process"
    /\ idx > Len(orders)
    /\ IF IsCheckpointPage(page) /\ all_cleaned_orders # EmptyMap
       THEN pc' = "ckpt_snap" /\ UNCHANGED <<page, retries>>
       ELSE NextPage
    /\ UNCHANGED <<run, variant, procFile, snapshot, cache, filtro_bloqueio,
                   nf_page, nf_total, nf_map, total_pages, skipped_count,
                   orders, idx, all_cleaned_orders, ids_processados_agora,
                   hist, prev, aw, call>>

LoopExit ==
    /\ pc = "fetch"
    /\ page > total_pages
    /\ pc' = "final"
    /\ UNCHANGED <<run, variant, procFile, snapshot, cache, filtro_bloqueio,
                   nf_page, nf_total, nf_map, page, total_pages, retries,
                   skipped_count, orders, idx, all_cleaned_orders,
                   ids_processados_agora, hist, prev, aw, call>>

(***************************************************************************)
(* _save_results, in its two writes.  pc ckpt_* is the call of line 171    *)
(* (is_checkpoint=True), pc fin_* the call of the finally block.           *)
(***************************************************************************)
SaveReturn ==
    IF pc \in {"ckpt_snap", "ckpt_ids"}
    THEN NextPage
    ELSE pc' = "done" /\ UNCHANGED <<page, retries>>

(* line 212: the guard of the processados.json update *)
UpdatesProcessed(is_checkpoint, processed_ids) == processed_ids # << >>

SaveSnapshotIdsAnyway(writeOk) ==
    /\ pc \in {"ckpt_snap", "fin_snap"}
    /\ hist' = IF pc = "ckpt_snap"
               THEN [hist EXCEPT !.ckpt = @ \/ writeOk]
               ELSE [hist EXCEPT !.finalWrites = @ + 1,
                                 !.finalSnapOk = writeOk]
    /\ snapshot' = IF writeOk THEN Snapshot(all_cleaned_orders) ELSE snapshot
    /\ IF UpdatesProcessed(pc = "ckpt_snap", ids_processados_agora)
       THEN /\ pc' = IF pc = "ckpt_snap" THEN "ckpt_ids" ELSE "fin_ids"
            /\ UNCHANGED <<page, retries>>
       ELSE SaveReturn
    /\ UNCHANGED <<run, variant, procFile, cache, filtro_bloqueio,
                   nf_page, nf_total, nf_map, total_pages, skipped_count,
                   orders, idx, all_cleaned_orders, ids_processados_agora,
                   prev, aw, call>>

(* save_refined_json; writeOk = FALSE is an _atomic_write that raises,     *)
(* which _save_results logs: the ids are then not recorded.                *)
SaveSnapshot(writeOk) ==
    /\ pc \in {"ckpt_snap", "fin_snap"}
    /\ hist' = IF pc = "ckpt_snap"
               THEN [hist EXCEPT !.ckpt = @ \/ writeOk]
               ELSE [hist EXCEPT !.finalWrites = @ + 1,
                                 !.finalSnapOk = writeOk]
    /\ IF writeOk
       THEN /\ snapshot' = Snapshot(all_cleaned_orders)
            /\ IF UpdatesProcessed(pc = "ckpt_snap", ids_processados_agora)
               THEN /\ pc' = IF pc = "ckpt_snap" THEN "ckpt_ids" ELSE "fin_ids"
                    /\ UNCHANGED <<page, retries>>
               ELSE SaveReturn
       ELSE /\ SaveReturn
            /\ UNCHANGED snapshot
    /\ UNCHANGED <<run, variant, procFile, cache, filtro_bloqueio,
                   nf_page, nf_total, nf_map, total_pages, skipped_count,
                   orders, idx, all_cleaned_orders, ids_processados_agora,
                   prev, aw, call>>

SaveIds(readOk, writeOk) ==
    /\ pc \in {"ckpt_ids", "fin_ids"}
    /\ LET u == update_processed_list(procFile, cache, ids_processados_agora,
                                      readOk, writeOk)
       IN  procFile' = u.file /\ cache' = u.cache
    /\ hist' = IF pc = "fin_ids" /\ writeOk
               THEN [hist EXCEPT !.finalIdsOk = TRUE]
               ELSE hist
    /\ SaveReturn
    /\ UNCHANGED <<run, variant, snapshot, filtro_bloqueio,
                   nf_page, nf_total, nf_map, total_pages, skipped_count,
                   orders, idx, all_cleaned_orders, ids_processados_agora,
                   prev, aw, call>>

(***************************************************************************)
(* The end of run_extraction: except KeyboardInterrupt / finally           *)
(***************************************************************************)
AfterInterruptNoFinally == "done"

(* Where control goes when KeyboardInterrupt is raised inside the try.     *)
AfterInterrupt == "final"

(* A KeyboardInterrupt anywhere in the try block (a request, a sleep, the  *)
(* processing of an order, a checkpoint save).                             *)
InterruptLoop ==
    /\ pc \in InLoop
    /\ pc' = AfterInterrupt
    /\ hist' = [hist EXCEPT !.intr = "loop",
                !.atIntr = Args(all_cleaned_orders, ids_processados_agora)]
    /\ UNCHANGED <<run, variant, procFile, snapshot, cache, filtro_bloqueio,
                   nf_page, nf_total, nf_map, page, total_pages, retries,
                   skipped_count, orders, idx, all_cleaned_orders,
                   ids_processados_agora, prev, aw, call>>

(* A KeyboardInterrupt between line 160 (the insertion in the map) and     *)
(* line 161 (the append to the processed buffer).                          *)
InterruptMidStore ==
    /\ pc = "process"
    /\ idx <= Len(orders)
    /\ orders[idx].kind = "good"
    /\ ~Blocked(orders[idx])
    /\ all_cleaned_orders' =
           Put(all_cleaned_orders, orders[idx].num, orders[idx].id)
    /\ pc' = AfterInterrupt
    /\ hist' = [hist EXCEPT !.intr = "loop",
                !.atIntr = Args(all_cleaned_orders', ids_processados_agora)]
    /\ UNCHANGED <<run, variant, procFile, snapshot, cache, filtro_bloqueio,
                   nf_page, nf_total, nf_map, page, total_pages, retries,
                   skipped_count, orders, idx, ids_processados_agora,
                   prev, aw, call>>

FinalSaveArgsFreshIds == Args(all_cleaned_orders, << >>)

(* line 194: what the finally block passes to _save_results *)
FinalSaveArgs == Args(all_cleaned_orders, ids_processados_agora)

FinalSaveWritesEmpty ==
    /\ pc = "final"
    /\ hist' = [hist EXCEPT !.finalCalls = @ + 1, !.finalArgs = FinalSaveArgs]
    /\ pc' = "fin_snap"
    /\ UNCHANGED <<run, variant, procFile, snapshot, cache, filtro_bloqueio,
                   nf_page, nf_total, nf_map, page, total_pages, retries,
                   skipped_count, orders, idx, all_cleaned_orders,
                   ids_processados_agora, prev, aw, call>>

FinalSave ==
    /\ pc = "final"
    /\ hist' = [hist EXCEPT !.finalCalls = @ + 1, !.finalArgs = FinalSaveArgs]
    /\ pc' = IF FinalSaveArgs.orders = EmptyMap THEN "done" ELSE "fin_snap"
    /\ UNCHANGED <<run, variant, procFile, snapshot, cache, filtro_bloqueio,
                   nf_page, nf_total, nf_map, page, total_pages, retries,
                   skipped_count, orders, idx, all_cleaned_orders,
                   ids_processados_agora, prev, aw, call>>

(* A KeyboardInterrupt during the final save itself leaves the finally     *)
(* block and run_extraction.                                               *)
InterruptFinal ==
    /\ pc \in {"fin_snap", "fin_ids"}
    /\ pc' = "escaped"
    /\ hist' = [hist EXCEPT !.intr = IF @ = "none" THEN "final" ELSE @]
    /\ UNCHANGED <<run, variant, procFile, snapshot, cache, filtro_bloqueio,
                   nf_page, nf_total, nf_map, page, total_pages, retries,
                   skipped_count, orders, idx, all_cleaned_orders,
                   ids_processados_agora, prev, aw, call>>

(* The memory of a process that is gone. *)
MemoryLost ==
    /\ cache' = NoCache
    /\ filtro_bloqueio' = {}
    /\ nf_page' = 1 /\ nf_total' = 1 /\ nf_map' = EmptyMap
    /\ page' = 1 /\ total_pages' = 1 /\ retries' = 0 /\ skipped_count' = 0
    /\ orders' = << >> /\ idx' = 1
    /\ all_cleaned_orders' = EmptyMap /\ ids_processados_agora' = << >>

(* The process is killed (SIGKILL, power loss): nothing more runs, only    *)
(* the files remain.                                                       *)
Kill ==
    /\ pc \in Running
    /\ pc' = "killed"
    /\ MemoryLost
    /\ UNCHANGED <<run, variant, procFile, snapshot, hist, prev, aw, call>>

(* The job is started again over the same period: a new process, with an   *)
(* empty repository cache; only the files remain.                          *)
StartSecondRun ==
    /\ run = 1
    /\ pc \in Ended
    /\ run' = 2
    /\ pc' = "start"
    /\ prev' = [end     |-> pc,
                aborted |-> pc # "done" \/ hist.intr # "none",
                ckpt    |-> hist.ckpt,
                finalOk |-> hist.finalSnapOk /\ hist.finalIdsOk,
                allOk   |-> pc = "done" /\ hist.intr = "none" /\ ~hist.missed,
                ids     |-> SeqSet(ids_processados_agora),
                base    |-> hist.base]
    /\ hist' = [InitHist EXCEPT !.base = StoredIds(procFile)]
    /\ MemoryLost
    /\ UNCHANGED <<variant, procFile, snapshot, aw, call>>

(***************************************************************************)
(* Spec: the orchestrator                                                  *)
(***************************************************************************)
Variants == {"plain", "quirky"}

InitialProcFiles == {AbsentFile, ListFile({"b"})}

Init ==
    /\ run = 1
    /\ pc = "start"
    /\ variant \in Variants
    /\ procFile \in InitialProcFiles
    /\ snapshot = NoSnapshot
    /\ cache = NoCache
    /\ filtro_bloqueio = {}
    /\ nf_page = 1 /\ nf_total = 1 /\ nf_map = EmptyMap
    /\ page = 1 /\ total_pages = 1 /\ retries = 0 /\ skipped_count = 0
    /\ orders = << >> /\ idx = 1
    /\ all_cleaned_orders = EmptyMap /\ ids_processados_agora = << >>
    /\ hist = [InitHist EXCEPT !.base = StoredIds(procFile)]
    /\ prev = NoPrev
    /\ aw = AwIdle
    /\ call = NoCall

Next ==
    \/ \E readOk \in BOOLEAN : Construct(readOk)
    \/ \E outcome \in {"ok", "norecords", "fail"} : IndexPage(outcome)
    \/ IndexDone
    \/ InterruptIndexing
    \/ \E outcome \in FetchOutcomes : FetchPage(outcome)
    \/ ProcessOrder
    \/ PageEnd
    \/ LoopExit
    \/ \E writeOk \in BOOLEAN : SaveSnapshot(writeOk)
    \/ \E readOk, writeOk \in BOOLEAN : SaveIds(readOk, writeOk)
    \/ InterruptLoop
    \/ InterruptMidStore
    \/ FinalSave
    \/ InterruptFinal
    \/ Kill

Spec == Init /\ [][Next]_vars

(***************************************************************************)
(* SpecRuns: two runs over the same period.  The first run is any run of   *)
(* Spec; the second one is a run that is left to complete.                 *)
(***************************************************************************)
NextRuns ==
    \/ run = 1 /\ Next
    \/ StartSecondRun
    \/ /\ run = 2
       /\ \/ \E readOk \in BOOLEAN : Construct(readOk)
          \/ IndexPage("ok")
          \/ IndexDone
          \/ \E outcome \in FetchOutcomes : FetchPage(outcome)
          \/ ProcessOrder
          \/ PageEnd
          \/ LoopExit
          \/ \E writeOk \in BOOLEAN : SaveSnapshot(writeOk)
          \/ \E readOk, writeOk \in BOOLEAN : SaveIds(readOk, writeOk)
          \/ FinalSave

SpecRuns == Init /\ [][NextRuns]_vars

(***************************************************************************)
(* Properties of the orchestrator (Spec)                                   *)
(***************************************************************************)

(* C1: an order whose internal id is in the blocklist loaded at run start  *)
(* (manifestados.json united with processados.json) is never in the output *)
(* map, whatever pages failed or were retried.                             *)
C1_BlockedNeverEmitted ==
    /\ pc \in Running \ {"indexing"} => Manifestados \subseteq filtro_bloqueio
    /\ \A k \in DOMAIN all_cleaned_orders :
           all_cleaned_orders[k] \notin filtro_bloqueio

C1_Witness ==
    /\ pc = "done"
    /\ variant = "quirky"
    /\ hist.missed
    /\ skipped_count >= 3
    /\ all_cleaned_orders # EmptyMap

(* C2: a checkpoint save leaves processados.json as it is; only the final  *)
(* save modifies it.                                                       *)
C2_CheckpointLeavesBlocklist ==
    [][(pc \in {"ckpt_snap", "ckpt_ids"}) => (procFile' = procFile)]_vars

(* C3: a KeyboardInterrupt during the pagination of orders is caught, and  *)
(* the final save is called with everything accumulated at that moment.    *)
C3_InterruptKeepsProgress ==
    hist.intr = "loop" =>
        /\ pc \in {"final", "fin_snap", "fin_ids"} \cup Ended
        /\ pc = "final" => FinalSaveArgs = hist.atIntr
        /\ pc \in {"fin_snap", "fin_ids", "done", "escaped"} =>
               hist.finalCalls = 1 /\ hist.finalArgs = hist.atIntr

C3_Witness ==
    /\ hist.intr = "loop"
    /\ pc = "done"
    /\ Len(hist.atIntr.ids) >= 2
    /\ hist.finalArgs = hist.atIntr
    /\ hist.finalSnapOk /\ hist.finalIdsOk

(* C4 as stated: however the order loop exits, when run_extraction returns *)
(* the final write of the output map has been performed exactly once.      *)
C4_FinalWriteOnce ==
    pc = "done" => hist.finalWrites = 1

(* C4 amended: however the order loop exits, _save_results is called from  *)
(* the finally block exactly once, after the loop and before the return,   *)
(* with the accumulated output map; that call writes the map, once, when   *)
(* the map is not empty, and writes nothing when it is empty.              *)
C4_FinalSaveOnce ==
    /\ hist.finalCalls <= 1
    /\ pc \in InLoop \cup {"start", "indexing", "final"} => hist.finalCalls = 0
    /\ pc \in {"fin_snap", "fin_ids", "done"} => hist.finalCalls = 1
    /\ pc = "done" =>
           /\ hist.finalArgs = Args(all_cleaned_orders, ids_processados_agora)
           /\ hist.finalWrites =
                  IF all_cleaned_orders = EmptyMap THEN 0 ELSE 1

C4_Witness ==
    /\ pc = "done"
    /\ hist.intr = "loop"
    /\ hist.finalCalls = 1
    /\ hist.finalWrites = 1
    /\ hist.finalSnapOk
    /\ all_cleaned_orders # EmptyMap

(* C5: every execution of run_extraction that ends, normally or by an      *)
(* error or interrupt raised in any state, the invoice indexing included,  *)
(* has passed through the final save.                                      *)
C5_AlwaysFinalizes ==
    pc \in {"done", "escaped"} => hist.finalCalls >= 1

(* C10: an order-page request that fails with a logical API error is fatal *)
(* at once: no retry, no later page, the final save comes next.            *)
C10_LogicalErrorFatal ==
    [][FetchPage("logical") => (pc' = "final")]_vars

(***************************************************************************)
(* Properties across two runs (SpecRuns)                                   *)
(***************************************************************************)

(* C7: when the first run was aborted after a checkpoint and the second    *)
(* run completes, every id added to processados.json by either run has its *)
(* order in the snapshot: the snapshot has an entry under the display      *)
(* number of that order (an entry overwritten by a later order of the same *)
(* display number is not counted as lost).  The second run is one without  *)
(* any fault of its own: it read processados.json and gave up no page.     *)
C7_NoCapturedOrderLost ==
    (run = 2 /\ pc = "done" /\ prev.aborted /\ prev.ckpt
       /\ hist.loadOk /\ ~hist.missed) =>
        \A id \in StoredIds(procFile) \ prev.base :
            snapshot.exists /\ NumOf(id) \in DOMAIN snapshot.data

RepoIds == {"a", "b", "c", "e"}

NewIdLists == UNION {[1..n -> RepoIds] : n \in 1..MaxNewIds}

Idle ==
    /\ run = 1 /\ variant = "plain"
    /\ snapshot = NoSnapshot
    /\ filtro_bloqueio = {}
    /\ nf_page = 1 /\ nf_total = 1 /\ nf_map = EmptyMap
    /\ page = 1 /\ total_pages = 1 /\ retries = 0 /\ skipped_count = 0
    /\ orders = << >> /\ idx = 1
    /\ all_cleaned_orders = EmptyMap /\ ids_processados_agora = << >>
    /\ hist = InitHist
    /\ prev = NoPrev

InitRepo ==
    /\ Idle
    /\ pc = "repo"
    /\ procFile \in {AbsentFile, OtherFile} \cup {ListFile(S) : S \in SUBSET RepoIds}
    /\ cache = NoCache
    /\ aw = AwIdle
    /\ call = NoCall

RepoNew ==
    /\ pc = "repo"
    /\ cache' = NoCache
    /\ UNCHANGED <<run, pc, variant, procFile, snapshot, filtro_bloqueio,
                   nf_page, nf_total, nf_map, page, total_pages, retries,
                   skipped_count, orders, idx, all_cleaned_orders,
                   ids_processados_agora, hist, prev, aw, call>>

RepoLoad(readOk) ==
    /\ pc = "repo"
    /\ cache' = load_filter_set(procFile, cache, readOk).cache
    /\ UNCHANGED <<run, pc, variant, procFile, snapshot, filtro_bloqueio,
                   nf_page, nf_total, nf_map, page, total_pages, retries,
                   skipped_count, orders, idx, all_cleaned_orders,
                   ids_processados_agora, hist, prev, aw, call>>

RepoUpdate(new_ids, readOk, writeOk) ==
    /\ pc = "repo"
    /\ LET u == update_processed_list(procFile, cache, new_ids, readOk, writeOk)
       IN  procFile' = u.file /\ cache' = u.cache
    /\ UNCHANGED <<run, pc, variant, snapshot, filtro_bloqueio,
                   nf_page, nf_total, nf_map, page, total_pages, retries,
                   skipped_count, orders, idx, all_cleaned_orders,
                   ids_processados_agora, hist, prev, aw, call>>

NextRepo ==
    \/ RepoNew
    \/ \E readOk \in BOOLEAN : RepoLoad(readOk)
    \/ \E new_ids \in NewIdLists, readOk, writeOk \in BOOLEAN :
           RepoUpdate(new_ids, readOk, writeOk)

SpecRepo == InitRepo /\ [][NextRepo]_vars

(* C9: the ids stored in processados.json never shrink: after every step,  *)
(* also a call whose read of the file fails or finds no list, the file     *)
(* holds a superset of the ids it held before.                             *)
C9_BlocklistAppendOnly ==
    [][StoredIds(procFile) \subseteq StoredIds(procFile')]_vars

(***************************************************************************)
(* SpecAtomic: one call _atomic_write(path, data), statement by statement. *)
(* A file is its bytes, as the chunks json.dump wrote.  At every step the  *)
(* statement may raise (ok = FALSE) or the machine may stop (AwCrash).     *)
(*   aw.pc     mkdir, open, dump, fsync, replace, cache: the statement     *)
(*             next to run; returned, raised, crashed: the ends            *)
(*   aw.files  the destination ("dest") and the temporary file ("temp")    *)
(*   aw.old    the destination before the call                             *)
(*   aw.synced os.fsync has returned for the file written                  *)
(*   aw.moved  the rename happened, with whether the file moved was then   *)
(*             complete and synced                                         *)
(***************************************************************************)
NoFile == [exists |-> FALSE, bytes |-> << >>]
File(b) == [exists |-> TRUE, bytes |-> b]

Contents == UNION {[1..n -> {"x", "y"}] : n \in 1..MaxChunks}

Prefixes(b) == {SubSeq(b, 1, n) : n \in 0..Len(b)}

WriteTargetInPlace == "dest"

(* line 54/57: the file that is opened for writing *)
WriteTarget == "temp"

AwSteps == {"mkdir", "open", "dump", "fsync", "replace", "cache"}

InitAtomic ==
    /\ Idle
    /\ pc = "aw"
    /\ procFile = AbsentFile
    /\ cache = NoCache
    /\ call = NoCall
    /\ \E old \in {NoFile} \cup {File(c) : c \in Contents}, data \in Contents :
           aw = [pc |-> "mkdir", old |-> old, data |-> data,
                 files |-> [dest |-> old, temp |-> NoFile],
                 synced |-> FALSE,
                 moved |-> [done |-> FALSE, complete |-> FALSE, synced |-> FALSE]]

AwFrame ==
    UNCHANGED <<run, pc, variant, procFile, snapshot, cache, filtro_bloqueio,
                nf_page, nf_total, nf_map, page, total_pages, retries,
                skipped_count, orders, idx, all_cleaned_orders,
                ids_processados_agora, hist, prev, call>>

(* except Exception (lines 74-79): the temp file is unlinked when it       *)
(* exists (a failing unlink is ignored), and the error is raised again.    *)
AwExcept(unlinkOk) ==
    aw' = [aw EXCEPT !.pc = "raised",
                     !.files.temp = IF @.exists /\ unlinkOk THEN NoFile ELSE @]

(* path.parent.mkdir: an OSError is logged and raised (lines 47-51). *)
AwMkdir(ok) ==
    /\ aw.pc = "mkdir"
    /\ aw' = [aw EXCEPT !.pc = IF ok THEN "open" ELSE "raised"]
    /\ AwFrame

(* open(temp_path, 'w'): creates or truncates the file. *)
AwOpen(ok, unlinkOk) ==
    /\ aw.pc = "open"
    /\ IF ok
       THEN aw' = [aw EXCEPT !.pc = "dump", !.files[WriteTarget] = File(<< >>)]
       ELSE AwExcept(unlinkOk)
    /\ AwFrame

(* json.dump, chunk by chunk; then f.flush(). *)
AwDump(ok, unlinkOk) ==
    /\ aw.pc = "dump"
    /\ LET written == aw.files[WriteTarget].bytes
       IN  IF ~ok THEN AwExcept(unlinkOk)
           ELSE IF Len(written) < Len(aw.data)
           THEN aw' = [aw EXCEPT !.files[WriteTarget] =
                           File(Append(written, aw.data[Len(written) + 1]))]
           ELSE aw' = [aw EXCEPT !.pc = "fsync"]
    /\ AwFrame

(* os.fsync(f.fileno()), and the end of the with block. *)
AwFsync(ok, unlinkOk) ==
    /\ aw.pc = "fsync"
    /\ IF ok
       THEN aw' = [aw EXCEPT !.pc = "replace", !.synced = TRUE]
       ELSE AwExcept(unlinkOk)
    /\ AwFrame

(* temp_path.replace(path): the rename, atomic in the file system. *)
AwReplace(ok, unlinkOk) ==
    /\ aw.pc = "replace"
    /\ IF ok
       THEN aw' = [aw EXCEPT
                     !.pc = "cache",
                     !.files = [dest |-> aw.files.temp, temp |-> NoFile],
                     !.moved = [done |-> TRUE,
                                complete |-> aw.files.temp = File(aw.data),
                                synced |-> aw.synced]]
       ELSE AwExcept(unlinkOk)
    /\ AwFrame

(* self._cache[path.name] = copy.deepcopy(data); an error here is raised   *)
(* like the others, after the rename.                                      *)
AwCache(ok, unlinkOk) ==
    /\ aw.pc = "cache"
    /\ IF ok
       THEN aw' = [aw EXCEPT !.pc = "returned"]
       ELSE AwExcept(unlinkOk)
    /\ AwFrame

(* The machine stops.  What was written and not yet synced may be lost     *)
(* from its end; a rename that happened stays.                             *)
AwCrash ==
    /\ aw.pc \in AwSteps
    /\ \E kept \in Prefixes(aw.files[WriteTarget].bytes) :
           /\ aw.synced => kept = aw.files[WriteTarget].bytes
           /\ aw' = [aw EXCEPT
                       !.pc = "crashed",
                       !.files[WriteTarget] =
                           IF aw.files[WriteTarget].exists /\ ~aw.moved.done
                           THEN File(kept) ELSE @]
    /\ AwFrame

NextAtomic ==
    \/ \E ok \in BOOLEAN : AwMkdir(ok)
    \/ \E ok, unlinkOk \in BOOLEAN : AwOpen(ok, unlinkOk)
    \/ \E ok, unlinkOk \in BOOLEAN : AwDump(ok, unlinkOk)
    \/ \E ok, unlinkOk \in BOOLEAN : AwFsync(ok, unlinkOk)
    \/ \E ok, unlinkOk \in BOOLEAN : AwReplace(ok, unlinkOk)
    \/ \E ok, unlinkOk \in BOOLEAN : AwCache(ok, unlinkOk)
    \/ AwCrash

SpecAtomic == InitAtomic /\ [][NextAtomic]_vars

(* C6: at every point of _atomic_write, a crash or an exception at any     *)
(* step included, the destination holds its complete previous content or   *)
(* the complete new content; and the rename happens only once the          *)
(* temporary file is completely written and fsynced.                       *)
C6_AtomicWrite ==
    /\ aw.files.dest \in {aw.old, File(aw.data)}
    /\ aw.moved.done => aw.moved.complete /\ aw.moved.synced
    /\ aw.pc \in {"cache", "returned"} => aw.moved.done
    /\ aw.pc \in AwSteps \ {"cache"} => ~aw.moved.done
    /\ aw.files.dest =
           IF aw.moved.done THEN File(aw.data) ELSE aw.old

(* A crash between the writing of the temp file and the rename. *)
C6_Witness ==
    /\ aw.pc = "crashed"
    /\ ~aw.moved.done
    /\ aw.files.temp.exists
    /\ aw.files.temp.bytes # << >>
    /\ aw.files.temp.bytes # aw.data
    /\ aw.old.exists
    /\ aw.old # File(aw.data)
    /\ aw.files.dest = aw.old

(***************************************************************************)
(* Further properties of the orchestrator (Spec)                           *)
(***************************************************************************)

(* C11: a "no records" fault is a benign end of pagination.  The client    *)
(* answers an empty page with zero total pages instead of raising; from    *)
(* then on the orchestrator requests no order page, counts no retry, keeps *)
(* what it accumulated and goes on to the final save.  In the indexer the  *)
(* same answer ends the indexing with the index built so far.              *)
C11_NoRecordsEndsPagination ==
    [][/\ FetchPage("norecords") =>
            /\ ~ClientRaises("norecords")
            /\ total_pages' = 0 /\ orders' = << >> /\ pc' = "process"
            /\ retries' = retries
            /\ all_cleaned_orders' = all_cleaned_orders
            /\ ids_processados_agora' = ids_processados_agora
       /\ (total_pages = 0 /\ pc \in InLoop \cup {"final", "fin_snap", "fin_ids"}) =>
            /\ ~(\E outcome \in FetchOutcomes : FetchPage(outcome))
            /\ pc' = "killed" \/
                 /\ total_pages' = 0
                 /\ retries' <= retries
                 /\ all_cleaned_orders' = all_cleaned_orders
                 /\ ids_processados_agora' = ids_processados_agora
            /\ pc = "process" => pc' \in {"fetch", "ckpt_snap", "final", "killed"}
            /\ pc \in {"ckpt_snap", "ckpt_ids"} =>
                   pc' \in {"ckpt_ids", "fetch", "final", "killed"}
            /\ pc = "fetch" => pc' \in {"final", "killed"}
            /\ pc = "final" =>
                   pc' = "killed" \/ hist'.finalArgs = FinalSaveArgs
       /\ IndexPage("norecords") => (pc' = "fetch" /\ nf_map' = nf_map)
      ]_vars

C11_Witness ==
    /\ total_pages = 0
    /\ pc = "done"
    /\ hist.intr = "none"
    /\ Len(ids_processados_agora) >= 2
    /\ hist.finalArgs = Args(all_cleaned_orders, ids_processados_agora)
    /\ snapshot = Snapshot(all_cleaned_orders)

(* A step in which an attempt at the page in hand fails: the request       *)
(* raises, or the processing of the page raises outside the per-order try. *)
AttemptFails ==
    \/ \E outcome \in FetchOutcomes : ClientRaises(outcome) /\ FetchPage(outcome)
    \/ ProcessOrder /\ pc' = "fetch"

(* C12: the retry of an order page is bounded, with exponential backoff.   *)
(* A request is at most the 3rd of its page; after the k-th consecutive    *)
(* failure, k < 3, the handler sleeps 2^k seconds (2, then 4) and the same *)
(* page is tried again; after the 3rd it sleeps nothing and the next page  *)
(* is taken; the attempt counter is zero whenever the page changes, and    *)
(* only a failed attempt raises it.                                        *)
C12_BoundedRetryWithBackoff ==
    [][/\ (\E outcome \in FetchOutcomes : FetchPage(outcome)) =>
              retries + 1 <= MAX_RETRIES
       /\ AttemptFails =>
              IF retries + 1 < MAX_RETRIES
              THEN /\ page' = page /\ retries' = retries + 1
                   /\ hist'.wait = 2 ^ (retries + 1)
                   /\ hist'.wait \in {2, 4}
              ELSE /\ page' = page + 1 /\ retries' = 0
                   /\ hist'.wait = 0
       /\ page' # page => retries' = 0 /\ page' \in {page + 1, 1}
       /\ (retries' # retries /\ ~AttemptFails) => retries' = 0
      ]_vars

C12_Witness ==
    /\ pc = "fetch"
    /\ page = 4
    /\ variant = "quirky"
    /\ retries = 2
    /\ hist.wait = 4
    /\ hist.missed

(* C13: accumulated results are never dropped: every entry ever inserted   *)
(* in the output map (one per id of the processed buffer, under the        *)
(* display number of its order) is still in the map, so that the final     *)
(* save receives all of them.                                              *)
C13_NoEntryDropped ==
    \A i \in 1..Len(ids_processados_agora) :
        LET id == ids_processados_agora[i]
        IN  /\ NumOf(id) \in DOMAIN all_cleaned_orders
            /\ all_cleaned_orders[NumOf(id)] = id

(* C14: the skipped counter is incremented exactly once for every order    *)
(* the ERP returned whose internal id is in the blocklist, also when a     *)
(* page fails part-way and is fetched again: at the end of the run it does *)
(* not exceed the number of such orders.                                   *)
C14_SkippedOncePerBlockedOrder ==
    pc = "done" =>
        skipped_count <= Cardinality({o \in ErpOrders : Blocked(o)})

(***************************************************************************)
(* SpecClean: the orchestrator over a period whose orders all clean and    *)
(* have pairwise distinct internal ids and display numbers.                *)
(***************************************************************************)
InitClean ==
    /\ run = 1
    /\ pc = "start"
    /\ variant = "distinct"
    /\ procFile \in InitialProcFiles
    /\ snapshot = NoSnapshot
    /\ cache = NoCache
    /\ filtro_bloqueio = {}
    /\ nf_page = 1 /\ nf_total = 1 /\ nf_map = EmptyMap
    /\ page = 1 /\ total_pages = 1 /\ retries = 0 /\ skipped_count = 0
    /\ orders = << >> /\ idx = 1
    /\ all_cleaned_orders = EmptyMap /\ ids_processados_agora = << >>
    /\ hist = [InitHist EXCEPT !.base = StoredIds(procFile)]
    /\ prev = NoPrev
    /\ aw = AwIdle
    /\ call = NoCall

SpecClean == InitClean /\ [][Next]_vars

(* The orders of the period that the blocklist lets through. *)
FreshOrders == {o \in ErpOrders : ~Blocked(o)}

(* A run that went to its end with no page given up or cut short, read the *)
(* blocklist it found and wrote both files in its final save.              *)
CleanRunDone ==
    /\ pc = "done"
    /\ hist.intr = "none"
    /\ ~hist.missed
    /\ hist.loadOk
    /\ hist.finalSnapOk /\ hist.finalIdsOk

(* C15: in such a run over orders with distinct ids and display numbers,   *)
(* the final output map has exactly one entry per non-blocklisted order,   *)
(* under its display number, and processados.json grows by exactly the     *)
(* ids of those orders.                                                    *)
C15_OneEntryPerFreshOrder ==
    CleanRunDone =>
        /\ DOMAIN all_cleaned_orders = {o.num : o \in FreshOrders}
        /\ Cardinality(DOMAIN all_cleaned_orders) = Cardinality(FreshOrders)
        /\ \A o \in FreshOrders : all_cleaned_orders[o.num] = o.id
        /\ snapshot = Snapshot(all_cleaned_orders)
        /\ StoredIds(procFile) \ hist.base = {o.id : o \in FreshOrders}
        /\ Cardinality(StoredIds(procFile)) =
               Cardinality(hist.base) + Cardinality(FreshOrders)
        /\ Len(ids_processados_agora) = Cardinality(FreshOrders)

C15_Witness ==
    /\ CleanRunDone
    /\ hist.base = {"b"}
    /\ skipped_count = 3
    /\ Cardinality(DOMAIN all_cleaned_orders) = 5
    /\ Cardinality(StoredIds(procFile)) = 6

(***************************************************************************)
(* Properties of the emitted orders (Spec).  all_cleaned_orders is kept as *)
(* display number -> internal id; the dictionary stored under a key is     *)
(* DadosLimpos of that order and of the invoice index of the run.          *)
(***************************************************************************)
OrderOf(i) == CHOOSE o \in ErpOrders : o.id = i

Emitted(k) == DadosLimpos(OrderOf(all_cleaned_orders[k]), nf_map)

(* The verdict of the validator for the order under key k and the invoice  *)
(* the index links to it ("none" when there is no such invoice).           *)
Verdict(k) ==
    LET o == OrderOf(all_cleaned_orders[k])
    IN  IF o.id \in DOMAIN nf_map
        THEN validar_integridade(NfPayload(RawNf(nf_map[o.id])),
                                 OrderPayload(o)).status
        ELSE "none"

(* C16: an emitted order whose internal id is in the invoice index has     *)
(* been through the integrity validator, and when the verdict is OK it     *)
(* carries the invoice summary and a non-empty integrity hash.             *)
C16_ValidatedOrderCarriesHash ==
    \A k \in DOMAIN all_cleaned_orders :
        Verdict(k) = "OK" =>
            /\ Emitted(k).nota_fiscal = nf_map[all_cleaned_orders[k]]
            /\ Emitted(k).hash_integridade # NoHash

(* The processing status an emitted dictionary carries. *)
ProcessingStatus(r) ==
    IF "status_processamento" \in DOMAIN r THEN r.status_processamento
    ELSE "absent"

(* C17: every emitted order has a processing status: InvoicedComplete iff  *)
(* a linked invoice was found and passed validation,                       *)
(* InvoicedNoInvoiceFound iff the order is flagged faturado and no invoice *)
(* was linked, Pending otherwise.                                          *)
C17_ProcessingStatus ==
    \A k \in DOMAIN all_cleaned_orders :
        ProcessingStatus(Emitted(k)) =
            IF Verdict(k) = "OK" THEN "InvoicedComplete"
            ELSE IF Verdict(k) = "none" /\ Emitted(k).faturado
            THEN "InvoicedNoInvoiceFound"
            ELSE "Pending"

(* C18: a malformed nested field of one order (a header or a product      *)
(* block delivered as a list) stays inside the processing of that order:   *)
(* the step that handles the order goes on to the next order of the same   *)
(* page; the page is not fetched again and not given up because of it.     *)
C18_MalformedOrderStaysLocal ==
    [][ProcessOrder =>
           (pc' = "process" /\ page' = page /\ retries' = retries
              /\ idx' = idx + 1)]_vars

(***************************************************************************)
(* SpecIndex: the body of the invoice loop of _fetch_nfe_map (lines 79-93) *)
(* over one page of invoices of any linkage.  The page in hand is kept in  *)
(* the variable orders, the position in it in idx.                         *)
(***************************************************************************)
NfIds == {"", "0", "a", "b"}

NfName(i) == CASE i = 1 -> "i1" [] i = 2 -> "i2" [] i = 3 -> "i3"
               [] OTHER -> "i4"

NfPages ==
    UNION {{[i \in 1..n |-> Nf(NfName(i), f[i][1], f[i][2])] :
                f \in [1..n -> NfIds \X NfIds]} : n \in 1..MaxNfs}

InitIndex ==
    /\ run = 1 /\ variant = "plain"
    /\ snapshot = NoSnapshot
    /\ filtro_bloqueio = {}
    /\ nf_page = 1 /\ nf_total = 1 /\ nf_map = EmptyMap
    /\ page = 1 /\ total_pages = 1 /\ retries = 0 /\ skipped_count = 0
    /\ idx = 1
    /\ all_cleaned_orders = EmptyMap /\ ids_processados_agora = << >>
    /\ hist = InitHist
    /\ prev = NoPrev
    /\ pc = "ix"
    /\ procFile = AbsentFile
    /\ cache = NoCache
    /\ aw = AwIdle
    /\ call = NoCall
    /\ orders \in NfPages

IxFrame ==
    UNCHANGED <<run, variant, procFile, snapshot, cache, filtro_bloqueio,
                nf_page, nf_total, page, total_pages, retries,
                skipped_count, orders, all_cleaned_orders,
                ids_processados_agora, hist, prev, aw, call>>

(* One turn of "for nf in nfs". *)
IxStep ==
    /\ pc = "ix"
    /\ idx <= Len(orders)
    /\ nf_map' = IndexNfs(nf_map, << orders[idx] >>)
    /\ idx' = idx + 1
    /\ pc' = pc
    /\ IxFrame

(* The end of the page. *)
IxEnd ==
    /\ pc = "ix"
    /\ idx > Len(orders)
    /\ pc' = "ixdone"
    /\ UNCHANGED <<nf_map, idx>>
    /\ IxFrame

NextIndex == IxStep \/ IxEnd

SpecIndex == InitIndex /\ [][NextIndex]_vars

C20_LastWriteWins ==
    LET done == 1..(idx - 1)
        Valid(i) == ResolveLink(orders[i]) \notin {"", "0"}
    IN  pc \in {"ix", "ixdone"} =>
            /\ \A i \in done : Valid(i) =>
                   /\ ResolveLink(orders[i]) \in DOMAIN nf_map
                   /\ \E j \in done :
                          /\ j >= i
                          /\ ResolveLink(orders[j]) = ResolveLink(orders[i])
                          /\ nf_map[ResolveLink(orders[i])] = orders[j].nNF
            /\ \A id \in DOMAIN nf_map :
                   \E i \in done :
                       /\ Valid(i)
                       /\ ResolveLink(orders[i]) = id
                       /\ nf_map[id] = orders[i].nNF
                       /\ \A j \in done :
                              (j > i) => ResolveLink(orders[j]) # id

C20_Witness ==
    /\ pc = "ixdone"
    /\ Len(orders) = 2
    /\ orders[1].compl = "a"
    /\ orders[2].compl = "0" /\ orders[2].det = "a"
    /\ nf_map["a"] = "i2"

(* C21: a failed invoice page is skipped and the indexer goes on: the page  *)
(* loop of the indexer is over only once the last invoice page of the      *)
(* period has been requested, whichever page failed.                       *)
C21_FailedPageOnlySkipped ==
    (pc = "indexing" /\ nf_page > nf_total) => nf_page > NfTotalPages

(***************************************************************************)
(* SpecValidate: one call of validar_integridade on an invoice and an      *)
(* order of any linkage and any line items, followed by a second call on   *)
(* the same pair.                                                          *)
(***************************************************************************)
ValNfItems ==
    {Item(c, q, v) : c \in {"A1", "B1"}, q \in {20005, 20010, 25000},
                     v \in {5000, 4991, 5010}}

ValOrderDets ==
    { << >>,
      << Item("A1", 20000, 5000) >>,
      << Item("B1", 20000, 5000), Item("A1", 20000, 5000) >>,
      << Item("A1", 10000, 5000), Item("A1", 20000, 5000) >> }

ValPairs ==
    {[raw_nf    |-> [nNF |-> "i1", compl |-> c, det |-> d, items |-> ni],
      raw_order |-> [id |-> "a", items |-> oi]] :
         c \in {"", "0", "a", "b"}, d \in {"0", "a"},
         ni \in UNION {[1..n -> ValNfItems] : n \in 0..MaxNfItems},
         oi \in ValOrderDets}

InitValidate ==
    /\ run = 1 /\ variant = "plain"
    /\ procFile = AbsentFile /\ snapshot = NoSnapshot /\ cache = NoCache
    /\ filtro_bloqueio = {}
    /\ nf_page = 1 /\ nf_total = 1 /\ nf_map = EmptyMap
    /\ page = 1 /\ total_pages = 1 /\ retries = 0 /\ skipped_count = 0
    /\ orders = << >> /\ idx = 1
    /\ all_cleaned_orders = EmptyMap /\ ids_processados_agora = << >>
    /\ hist = InitHist
    /\ prev = NoPrev
    /\ aw = AwIdle
    /\ pc = "call"
    /\ \E a \in ValPairs :
           /\ (a.raw_nf.items = << >>) => (a.raw_nf.det = "0")
           /\ call = [op |-> "validar_integridade", args |-> a, calls |-> 0]

CallFrame ==
    UNCHANGED <<run, variant, procFile, snapshot, cache, filtro_bloqueio,
                nf_page, nf_total, nf_map, page, total_pages, retries,
                skipped_count, orders, idx, all_cleaned_orders,
                ids_processados_agora, hist, prev, aw>>

Validate ==
    /\ pc = "call"
    /\ call.op = "validar_integridade"
    /\ call.calls = 0
    /\ call' = [op |-> call.op, args |-> call.args, calls |-> 1,
                result |-> validar_integridade(call.args.raw_nf,
                                               call.args.raw_order)]
    /\ pc' = pc
    /\ CallFrame

ValidateAgain ==
    /\ pc = "call"
    /\ call.op = "validar_integridade"
    /\ call.calls = 1
    /\ call' = [op |-> call.op, args |-> call.args, calls |-> 2,
                result |-> call.result,
                again |-> validar_integridade(call.args.raw_nf,
                                              call.args.raw_order)]
    /\ pc' = "returned"
    /\ CallFrame

NextValidate == Validate \/ ValidateAgain

SpecValidate == InitValidate /\ [][NextValidate]_vars

Validated == call.op = "validar_integridade" /\ call.calls >= 1

(* A line item of the invoice has a compatible line item in the order:     *)
(* the same product code, quantities less than 0.001 apart and unit        *)
(* prices less than 0.01 apart.                                            *)
Compatible(nf_item, ped_items) ==
    \E j \in 1..Len(ped_items) :
        /\ nf_item.cod = ped_items[j].cod
        /\ nf_item.q - ped_items[j].q < 10 /\ ped_items[j].q - nf_item.q < 10
        /\ nf_item.v - ped_items[j].v < 10 /\ ped_items[j].v - nf_item.v < 10

(* C22: for an invoice with at least one line item the verdict is OK iff   *)
(* the linked order id of the invoice (that of "compl", else that of its   *)
(* first line item) is the internal id of the order and every line item    *)
(* of the invoice has a compatible line item in the order.                 *)
C22_OkIffLinkedAndMatched ==
    LET nf  == call.args.raw_nf
        ped == call.args.raw_order
    IN  (Validated /\ nf.items # << >>) =>
            ((call.result.status = "OK") <=>
                 (/\ ResolveLink(nf) = ped.id
                  /\ \A i \in 1..Len(nf.items) :
                         Compatible(nf.items[i], ped.items)))

RefLists ==
    {l \in UNION {[1..n -> [id : {"v1", "v2", "v3"}, value : {"Ana", "Bia"}]] :
                     n \in 0..MaxRefs} :
         \A i, j \in 1..Len(l) : (l[i].id = l[j].id) => (i = j)}

RECURSIVE MapOfList(_)
MapOfList(l) ==
    IF l = << >> THEN EmptyMap
    ELSE Put(MapOfList(SubSeq(l, 1, Len(l) - 1)), l[Len(l)].id, l[Len(l)].value)

(* A reference file: absent, a JSON array of objects, the JSON object      *)
(* keyed by id that holds the same objects, or any other JSON value.       *)
RefFiles ==
    {[kind |-> "absent"], [kind |-> "other"]}
        \cup {[kind |-> "array", data |-> l] : l \in RefLists}
        \cup {[kind |-> "object", data |-> MapOfList(l)] : l \in RefLists}

(* load_dict(filename), required = False and nothing cached: the object    *)
(* of the file; the empty dictionary for an absent or unreadable file, for *)
(* an array and for any other value.                                       *)
load_dict(f, readOk) ==
    IF f.kind = "absent" \/ ~readOk THEN [type |-> "dict", value |-> EmptyMap]
    ELSE IF f.kind = "object" THEN [type |-> "dict", value |-> f.data]
    ELSE IF f.kind = "array" THEN [type |-> "dict", value |-> EmptyMap]
    ELSE [type |-> "dict", value |-> EmptyMap]

(* lines 45-48 and 53-56: a list is turned into a map, a dictionary is     *)
(* returned as it is.                                                      *)
load_and_map(raw_data) ==
    IF raw_data.type = "list" THEN MapOfList(raw_data.value)
    ELSE IF raw_data.type = "dict" THEN raw_data.value
    ELSE EmptyMap

InitLoad ==
    /\ run = 1 /\ variant = "plain"
    /\ procFile = AbsentFile /\ snapshot = NoSnapshot /\ cache = NoCache
    /\ filtro_bloqueio = {}
    /\ nf_page = 1 /\ nf_total = 1 /\ nf_map = EmptyMap
    /\ page = 1 /\ total_pages = 1 /\ retries = 0 /\ skipped_count = 0
    /\ orders = << >> /\ idx = 1
    /\ all_cleaned_orders = EmptyMap /\ ids_processados_agora = << >>
    /\ hist = InitHist
    /\ prev = NoPrev
    /\ aw = AwIdle
    /\ pc = "call"
    /\ \E f \in RefFiles, n \in {"vendedores.json", "categorias.json"} :
           call = [op |-> "load_and_map", args |-> [filename |-> n, file |-> f],
                   calls |-> 0]

LoadAndMap(readOk) ==
    /\ pc = "call"
    /\ call.op = "load_and_map"
    /\ call.calls = 0
    /\ call' = [op |-> call.op, args |-> call.args, calls |-> 1,
                readOk |-> readOk,
                result |-> load_and_map(load_dict(call.args.file, readOk))]
    /\ pc' = "returned"
    /\ CallFrame

SpecLoad == InitLoad /\ [][\E readOk \in BOOLEAN : LoadAndMap(readOk)]_vars

(* C25: a reference file that is an array of n objects with distinct ids,  *)
(* read without error, loads as the map of the equivalent object keyed by  *)
(* id: n entries, each id with its value.                                  *)
C25_ArrayLoadsAsObject ==
    (call.op = "load_and_map" /\ call.calls = 1 /\ call.readOk
       /\ call.args.file.kind = "array") =>
        LET l == call.args.file.data
        IN  /\ Cardinality(DOMAIN call.result) = Len(l)
            /\ \A i \in 1..Len(l) :
                   /\ l[i].id \in DOMAIN call.result
                   /\ call.result[l[i].id] = l[i].value

(* line 197: the count the end-of-run log reports *)
TotalExtraido == Cardinality(DOMAIN all_cleaned_orders)

(* The records the snapshot on disk holds. *)
Persisted == IF snapshot.exists THEN Cardinality(DOMAIN snapshot.data) ELSE 0

(* C26: the record count of the end-of-run log is the number of records    *)
(* the run has persisted in the snapshot, whatever the exit path and also  *)
(* when the final save fails.                                              *)
C26_ReportedCountIsPersisted ==
    (pc = "done") => (TotalExtraido = Persisted)

(***************************************************************************)
(* SpecMoney: the monetary conversion (entities._to_decimal, the float     *)
(* coercion of PedidoRefinado.to_dict) and the reading of a monetary field *)
(* by clean_order_data.  An amount is a whole number of thousandths for    *)
(* an input and of hundredths for a converted value.                       *)
(***************************************************************************)
Num(n) == [kind |-> "num", milli |-> n]          \* a JSON number
Str(n) == [kind |-> "str", milli |-> n]          \* a numeric string
(* Any other value: "missing" (the key is absent), "none" (null), "empty"  *)
(* (""), "text" (a non-numeric string), "list" ([]), "huge" (a number or   *)
(* a numeric string of 1e26 or more).                                      *)
Other(k) == [kind |-> k]

MoneyValues ==
    LET Amounts == (-MaxMilli..MaxMilli)
                       \cup {10000 + k : k \in 0..MaxMilli}
                       \cup {-(10000 + k) : k \in 0..MaxMilli}
    IN  {Num(n) : n \in Amounts} \cup {Str(n) : n \in Amounts}
            \cup {Other(k) : k \in {"none", "empty", "text", "list", "huge"}}

(* Decimal.quantize(Decimal("0.01"), rounding=ROUND_HALF_UP): thousandths  *)
(* to hundredths, a tie away from zero.                                    *)
quantize(n) == IF n >= 0 THEN (n + 5) \div 10 ELSE -((-n + 5) \div 10)

(* _to_decimal(value), in hundredths: zero for None and "", zero when      *)
(* Decimal(value) raises (a non-numeric string, a list) and zero when      *)
(* quantize raises: the result of a value of 1e26 or more has more than    *)
(* the 28 digits of the decimal context (InvalidOperation, an              *)
(* ArithmeticError).                                                       *)
to_decimal(value) ==
    IF value.kind \in {"none", "empty"} THEN 0
    ELSE IF value.kind \in {"num", "str"} THEN quantize(value.milli)
    ELSE 0

(* to_dict: float(Decimal); the float that holds c hundredths, as the      *)
(* number a later conversion reads.                                        *)
to_float(c) == Num(c * 10)

(* float(x) of Python: the number of a number or of a numeric string;      *)
(* ValueError or TypeError for anything else.                              *)
py_float(value) ==
    IF value.kind \in {"num", "str"}
    THEN [raised |-> FALSE, value |-> Num(value.milli)]
    ELSE IF value.kind = "huge" THEN [raised |-> FALSE, value |-> Other("huge")]
    ELSE [raised |-> TRUE]

(* A monetary field of clean_order_data (lines 214-216, 229, 236):         *)
(* float(block.get(field, 0)), then _to_decimal in __post_init__ and the   *)
(* float of to_dict.  An error leaves clean_order_data.                    *)
clean_money_field(value) ==
    LET got == IF value = Other("missing") THEN Num(0) ELSE value
        f   == py_float(got)
    IN  IF f.raised THEN [raised |-> TRUE]
        ELSE [raised |-> FALSE, value |-> to_float(to_decimal(f.value))]

InitMoney ==
    /\ run = 1 /\ variant = "plain"
    /\ procFile = AbsentFile /\ snapshot = NoSnapshot /\ cache = NoCache
    /\ filtro_bloqueio = {}
    /\ nf_page = 1 /\ nf_total = 1 /\ nf_map = EmptyMap
    /\ page = 1 /\ total_pages = 1 /\ retries = 0 /\ skipped_count = 0
    /\ orders = << >> /\ idx = 1
    /\ all_cleaned_orders = EmptyMap /\ ids_processados_agora = << >>
    /\ hist = InitHist
    /\ prev = NoPrev
    /\ aw = AwIdle
    /\ pc = "call"
    /\ \/ \E v \in MoneyValues :
              call = [op |-> "to_decimal", args |-> v, calls |-> 0]
       \/ \E v \in MoneyValues \cup {Other("missing")},
                f \in {"quantidade", "valor_unitario", "valor_total", "valor",
                       "valor_total_pedido"} :
              call = [op |-> "clean_order_data",
                      args |-> [field |-> f, value |-> v], calls |-> 0]

(* _to_decimal(value), then the float of to_dict. *)
ToDecimal ==
    /\ pc = "call"
    /\ call.op = "to_decimal"
    /\ call.calls = 0
    /\ call' = [op |-> call.op, args |-> call.args, calls |-> 1,
                result |-> to_float(to_decimal(call.args))]
    /\ pc' = pc
    /\ CallFrame

(* The conversion applied to its own result. *)
ToDecimalAgain ==
    /\ pc = "call"
    /\ call.op = "to_decimal"
    /\ call.calls = 1
    /\ call' = [op |-> call.op, args |-> call.args, calls |-> 2,
                result |-> call.result,
                again |-> to_float(to_decimal(call.result))]
    /\ pc' = "returned"
    /\ CallFrame

(* clean_order_data on an order whose monetary field "field" holds the     *)
(* value; an error is caught by run_extraction (line 164) and the order is *)
(* not emitted.                                                            *)
CleanMoney ==
    /\ pc = "call"
    /\ call.op = "clean_order_data"
    /\ call.calls = 0
    /\ LET r == clean_money_field(call.args.value)
       IN  call' = [op |-> call.op, args |-> call.args, calls |-> 1,
                    result |-> r, emitted |-> ~r.raised]
    /\ pc' = "returned"
    /\ CallFrame

NextMoney == ToDecimal \/ ToDecimalAgain \/ CleanMoney

SpecMoney == InitMoney /\ [][NextMoney]_vars

(* C27: a monetary field of a raw order that is missing or not numeric is  *)
(* coerced to zero: clean_order_data returns the order, which is emitted.  *)
C27_BadMoneyCoercedToZero ==
    (call.op = "clean_order_data" /\ call.calls = 1
       /\ call.args.value.kind \in {"missing", "none", "empty", "text", "list"}) =>
        /\ ~call.result.raised
        /\ call.result.value = Num(0)
        /\ call.emitted

(* C28: the conversion of a numeric string or a number gives the amount    *)
(* rounded to hundredths, to the nearest and a tie away from zero          *)
(* ("10" gives 10.00, "10.005" gives 10.01), and the conversion of that    *)
(* result gives the same amount again.                                     *)
C28_MoneyRoundTrip ==
    (call.op = "to_decimal" /\ call.calls >= 1
       /\ call.args.kind \in {"num", "str", "huge"}) =>
        /\ (call.args.kind = "huge") => (call.result = Other("huge"))
        /\ (call.args.kind # "huge") =>
               LET n == call.args.milli
                   r == call.result.milli
               IN  /\ call.result.kind = "num"
                   /\ r % 10 = 0
                   /\ r - n <= 5 /\ n - r <= 5
                   /\ (r - n = 5) => (n > 0)
                   /\ (n - r = 5) => (n < 0)
                   /\ (n = 10000) => (r = 10000)
                   /\ (n = 10005) => (r = 10010)
        /\ (call.calls = 2) => (call.again = call.result)

(* C29: the orchestrator does not go past an order page whose number is a  *)
(* multiple of 5 with a non-empty output map without the checkpoint save   *)
(* of that page, also when the page was given up after its retries.        *)
C29_CheckpointEveryFivePages ==
    [][(page' = page + 1 /\ IsCheckpointPage(page)
          /\ all_cleaned_orders # EmptyMap) =>
           (pc \in {"ckpt_snap", "ckpt_ids"})]_vars

(* C30: when an order that is not blocked and cleans has the display       *)
(* number of an entry that holds another internal id, the output map keeps *)
(* one entry for that number, now holding the later order, both internal   *)
(* ids are in the processed-this-run buffer, and a final save that wrote   *)
(* processados.json has persisted every id of the buffer.                  *)
C30_DisplayNumberLastWriteWins ==
    [][/\ (/\ ProcessOrder
           /\ orders[idx].kind = "good" /\ ~Blocked(orders[idx])
           /\ orders[idx].num \in DOMAIN all_cleaned_orders
           /\ all_cleaned_orders[orders[idx].num] # orders[idx].id) =>
              LET o == orders[idx]
              IN  /\ DOMAIN all_cleaned_orders' = DOMAIN all_cleaned_orders
                  /\ all_cleaned_orders'[o.num] = o.id
                  /\ \A k \in DOMAIN all_cleaned_orders \ {o.num} :
                         all_cleaned_orders'[k] = all_cleaned_orders[k]
                  /\ ids_processados_agora'
                         = Append(ids_processados_agora, o.id)
                  /\ all_cleaned_orders[o.num]
                         \in SeqSet(ids_processados_agora')
       /\ (pc # "done" /\ pc' = "done" /\ hist'.finalIdsOk) =>
              SeqSet(ids_processados_agora') \subseteq StoredIds(procFile')
      ]_vars

C30_Witness ==
    /\ pc = "done"
    /\ "n1" \in DOMAIN all_cleaned_orders
    /\ all_cleaned_orders["n1"] = "c"
    /\ Cardinality({i \in DOMAIN ids_processados_agora :
                        OrderOf(ids_processados_agora[i]).num = "n1"}) = 2
    /\ {"a", "c"} \subseteq SeqSet(ids_processados_agora)
    /\ {"a", "c"} \subseteq StoredIds(procFile)

(* C31: a call of _save_results writes the snapshot before                 *)
(* processados.json, and leaves processados.json alone when the snapshot   *)
(* write failed: the file changes only in the step after a snapshot write  *)
(* of the same call that succeeded, so that the snapshot on disk holds the *)
(* output map whose ids are being recorded.                                *)
C31_SnapshotBeforeIds ==
    [][/\ (procFile' # procFile \/ pc' \in {"ckpt_ids", "fin_ids"}) =>
              /\ pc \in {"ckpt_snap", "fin_snap", "ckpt_ids", "fin_ids"}
              /\ snapshot' = Snapshot(all_cleaned_orders)
       /\ (procFile' # procFile) => (pc \in {"ckpt_ids", "fin_ids"})
       /\ (pc = "fin_snap" /\ ~hist'.finalSnapOk) =>
              (pc' \notin {"ckpt_ids", "fin_ids"} /\ procFile' = procFile)
      ]_vars

C31_Witness ==
    /\ pc = "done"
    /\ hist.finalWrites = 1 /\ ~hist.finalSnapOk /\ ~hist.ckpt
    /\ ids_processados_agora # << >>
    /\ StoredIds(procFile) = hist.base
    /\ ~snapshot.exists

(* C32: an internal id enters the processed-this-run buffer only in the    *)
(* step that cleaned its order and stored it in the output map; an order   *)
(* whose cleaning raises is neither stored nor marked and the loop goes on *)
(* with the next order; giving up a page marks nothing; and what a save    *)
(* adds to processados.json comes from the buffer only, so that these      *)
(* orders are not blocked in a later run.                                  *)
C32_MarkedOnlyWhenStored ==
    [][/\ (ids_processados_agora' # ids_processados_agora /\ pc' # "killed") =>
              /\ pc = "process" /\ idx <= Len(orders)
              /\ orders[idx].kind = "good" /\ ~Blocked(orders[idx])
              /\ ids_processados_agora'
                     = Append(ids_processados_agora, orders[idx].id)
              /\ orders[idx].num \in DOMAIN all_cleaned_orders'
              /\ all_cleaned_orders'[orders[idx].num] = orders[idx].id
       /\ (ProcessOrder /\ orders[idx].kind = "dirty"
             /\ ~Blocked(orders[idx])) =>
              /\ pc' = "process" /\ idx' = idx + 1 /\ page' = page
              /\ UNCHANGED <<all_cleaned_orders, ids_processados_agora>>
       /\ (pc = "fetch" /\ page' = page + 1) =>
              UNCHANGED <<all_cleaned_orders, ids_processados_agora>>
       /\ (procFile' # procFile) =>
              StoredIds(procFile') \subseteq
                  StoredIds(procFile) \cup SeqSet(ids_processados_agora)
      ]_vars

C32_Witness ==
    /\ pc = "done" /\ variant = "plain"
    /\ hist.intr = "none" /\ hist.missed /\ hist.finalIdsOk
    /\ {"a", "c"} \subseteq StoredIds(procFile)
    /\ "d" \notin StoredIds(procFile)
    /\ "b" \notin StoredIds(procFile)
    /\ "n1" \in DOMAIN all_cleaned_orders /\ all_cleaned_orders["n1"] = "c"

(***************************************************************************)
(* SpecPages: the order loop with its requests counted.  The run is one    *)
(* that is not killed and whose disk works; call holds the number of       *)
(* listar_pedidos calls made and the page of the last one.                 *)
(***************************************************************************)
InitPages ==
    /\ Init
    /\ variant = "quirky"
    /\ procFile = AbsentFile

(* A call of listar_pedidos (line 127), counted. *)
FetchCounted(outcome) ==
    /\ ListarPedidos(outcome)
    /\ call' = [op |-> "listar_pedidos",
                requests |-> (IF call = NoCall THEN 0 ELSE call.requests) + 1,
                pagina |-> page]

NextPages ==
    \/ Construct(TRUE)
    \/ IndexPage("ok")
    \/ IndexDone
    \/ \E outcome \in FetchOutcomes : FetchCounted(outcome)
    \/ ProcessOrder
    \/ PageEnd
    \/ LoopExit
    \/ SaveSnapshot(TRUE)
    \/ SaveIds(TRUE, TRUE)
    \/ InterruptLoop
    \/ InterruptMidStore
    \/ FinalSave

SpecPages == InitPages /\ [][NextPages]_vars /\ WF_vars(NextPages)

(* C33: the order pages requested start at 1 and never go back, a page     *)
(* left behind is not requested again, a period of at most P pages takes   *)
(* at most 3 * P requests, and the order loop ends in the final save.      *)
C33_RequestsBoundedAndLoopEnds ==
    /\ [](call # NoCall => call.requests <= 3 * ErpTotalPages)
    /\ [][/\ (call' # call) =>
                 /\ call'.pagina = page
                 /\ call = NoCall => (page = 1 /\ call'.requests = 1)
                 /\ call # NoCall => call'.pagina >= call.pagina
          /\ (pc \in InLoop /\ pc' \in InLoop) => (page' >= page)]_vars
    /\ (pc = "fetch") ~> (pc \in {"final", "fin_snap", "fin_ids", "done"})

C33_Witness ==
    /\ pc = "done"
    /\ hist.intr = "none"
    /\ call # NoCall
    /\ call.requests = 3 * ErpTotalPages
    /\ call.pagina = ErpTotalPages

(* C34: a save with an empty output map writes nothing: a step taken with  *)
(* the map empty, the checkpoint and the final save included, leaves the   *)
(* snapshot and processados.json as they are and enters no write.          *)
C34_EmptyMapWritesNothing ==
    [][(all_cleaned_orders = EmptyMap) =>
           /\ snapshot' = snapshot
           /\ procFile' = procFile
           /\ pc' \notin {"ckpt_snap", "ckpt_ids", "fin_snap", "fin_ids"}]_vars

C34_Witness ==
    /\ run = 2
    /\ pc = "done"
    /\ hist.finalCalls = 1
    /\ hist.finalArgs.orders = EmptyMap
    /\ hist.finalWrites = 0
    /\ snapshot.exists
    /\ snapshot.data # EmptyMap

(* C35: the header check reads the order id of "compl" only: an invoice    *)
(* linked to the order through its first line item alone ("compl" absent   *)
(* or "0") gets the header-mismatch message and the status FALHA against   *)
(* that very order, whatever its line items.                               *)
C35_HeaderReadsComplOnly ==
    LET nf  == call.args.raw_nf
        ped == call.args.raw_order
    IN  (/\ Validated
         /\ nf.compl \in {"", "0"}
         /\ ResolveLink(nf) = ped.id
         /\ ped.id \notin {"", "0"}) =>
            /\ call.result.status = "FALHA"
            /\ Head(call.result.erros) = <<"id", nf.compl, ped.id>>
            /\ call.result.hash_validacao = NoHash

C35_Witness ==
    /\ Validated
    /\ call.args.raw_nf.compl = "0"
    /\ call.args.raw_nf.det = "a"
    /\ call.args.raw_nf.items = << Item("A1", 20005, 5000) >>
    /\ call.args.raw_order.items = << Item("A1", 20000, 5000) >>
    /\ call.result.status = "FALHA"
    /\ call.result.erros = << <<"id", "0", "a">> >>

(* C36: an invoice without line items gets the status FALHA, the message   *)
(* that it has no items to validate as its last message, and no hash,      *)
(* whether or not the header ids agree and whatever the order holds.       *)
C36_NoItemsIsFailure ==
    LET nf == call.args.raw_nf
        e  == call.result.erros
    IN  (Validated /\ nf.items = << >>) =>
            /\ call.result.status = "FALHA"
            /\ e # << >>
            /\ e[Len(e)] = <<"noitems">>
            /\ \A i \in 1..(Len(e) - 1) : e[i][1] = "id"
            /\ call.result.hash_validacao = NoHash

C36_Witness ==
    /\ Validated
    /\ call.args.raw_nf.items = << >>
    /\ call.args.raw_nf.compl = call.args.raw_order.id
    /\ call.args.raw_order.items # << >>
    /\ call.result.status = "FALHA"
    /\ call.result.erros = << <<"noitems">> >>
    /\ call.result.hash_validacao = NoHash

(* C37: matching does not consume order items: the verdict on the invoice  *)
(* is OK exactly when the verdict on each of its line items alone, against *)
(* the whole order, is OK; so an invoice can be OK with more line items    *)
(* than the order has.                                                     *)
C37_MatchingDoesNotConsume ==
    LET nf  == call.args.raw_nf
        ped == call.args.raw_order
        alone(i) == validar_integridade([nf EXCEPT !.items = << nf.items[i] >>],
                                        ped)
    IN  (Validated /\ nf.items # << >>) =>
            /\ (call.result.status = "OK") <=>
                   (\A i \in 1..Len(nf.items) : alone(i).status = "OK")
            /\ (call.result.status = "OK") =>
                   (call.result.hash_validacao
                        = alone(Len(nf.items)).hash_validacao)

C37_Witness ==
    /\ Validated
    /\ call.args.raw_nf.compl = "a"
    /\ call.args.raw_nf.items =
           << Item("A1", 20005, 5000), Item("A1", 20005, 5000) >>
    /\ call.args.raw_order.items = << Item("A1", 20000, 5000) >>
    /\ Len(call.args.raw_nf.items) > Len(call.args.raw_order.items)
    /\ call.result.status = "OK"

(* C38: the hash of an OK verdict is the digest of the last line item of   *)
(* the invoice and of the invoice's own ids: a pair that differs from the  *)
(* validated one only in the order's items or in the earlier line items    *)
(* of the invoice, and is OK too, gets the same hash.                      *)
C38_HashOfLastItemOnly ==
    LET nf   == call.args.raw_nf
        ped  == call.args.raw_order
        last == nf.items[Len(nf.items)]
        other(earlier, oi) ==
            validar_integridade([nf EXCEPT !.items = Append(earlier, last)],
                                [ped EXCEPT !.items = oi])
    IN  (Validated /\ call.result.status = "OK") =>
            /\ call.result.hash_validacao = gerar_hash_item(nf, last)
            /\ \A oi \in ValOrderDets :
               \A earlier \in {<< >>} \cup {<< x >> : x \in ValNfItems} :
                   (other(earlier, oi).status = "OK") =>
                       (other(earlier, oi).hash_validacao
                            = call.result.hash_validacao)

C38_Witness ==
    /\ Validated
    /\ call.args.raw_nf.compl = "a"
    /\ call.args.raw_nf.items =
           << Item("B1", 20005, 4991), Item("A1", 20005, 5000) >>
    /\ call.args.raw_order.items =
           << Item("B1", 20000, 5000), Item("A1", 20000, 5000) >>
    /\ call.result.status = "OK"
    /\ call.result.hash_validacao = <<"sha256", "a", "A1", 20005>>

====
